---- MODULE Spec2Model ----
(***************************************************************************)
(* Scilla: client-side stake-account operations (src/commands/stake.rs).   *)
(*                                                                         *)
(* Every operation is one synchronous chain: fetch the account(s) from the *)
(* ledger, decode the stake state, run the guard, build the instruction,   *)
(* submit it with build_and_send_tx and report.  The client keeps no       *)
(* state of its own between operations; what persists is the ledger.       *)
(*                                                                         *)
(* State of the model:                                                     *)
(*   ledger             the accounts of the cluster, by address            *)
(*   epoch              the cluster's current epoch                        *)
(*   minimum_delegation the cluster's minimum stake delegation             *)
(*   last               what the latest operation was given, what it       *)
(*                      fetched, and how it ended                          *)
(*   deactivate_txs     per stake account, the deactivate transactions     *)
(*                      submitted and confirmed for its current delegation *)
(*   send_failures      number of deliveries that failed in transport      *)
(*   deploy             the program deployment under way, if any           *)
(*                      (src/commands/program.rs)                          *)
(*                                                                         *)
(* The specifications share this state: Spec follows one account through   *)
(* deactivate and withdraw as the epochs pass; SpecPair runs merge and     *)
(* split on two accounts; SpecCreate creates stake accounts; SpecDelegate  *)
(* delegates one; SpecDeploy is deploy_program with its chunked upload.    *)
(***************************************************************************)
EXTENDS Integers, Sequences, FiniteSets, TLC

VARIABLES ledger, epoch, minimum_delegation, last, deactivate_txs, send_failures, deploy

vars == <<ledger, epoch, minimum_delegation, last, deactivate_txs, send_failures, deploy>>

(***************************************************************************)
(* Bounds of the model.                                                    *)
(***************************************************************************)
MaxEpoch == 2
MaxLamports == 2
MinDelegation == 2
MaxSendFailures == 1

(***************************************************************************)
(* Program constants.                                                      *)
(***************************************************************************)
\* constants.rs:7  ACTIVE_STAKE_EPOCH_BOUND = u64::MAX.  The largest integer
\* the checker represents stands for u64::MAX; every epoch of the model is
\* far below it and no arithmetic is done on it.
ACTIVE_STAKE_EPOCH_BOUND == 2147483647

\* solana_stake_interface::program::id() and the system program
STAKE_PROGRAM == "Stake11111111111111111111111111111111111111"
SYSTEM_PROGRAM == "11111111111111111111111111111111"

(***************************************************************************)
(* Keys and addresses.                                                     *)
(***************************************************************************)
\* ctx.pubkey(): the configured wallet, fee payer and signer of the client
ctx_pubkey == "payer"

\* the keys an authority field or a keypair file can hold
Authorities == {"payer", "other"}

\* the addresses an operation can be pointed at
Addresses == {"stakeA", "stakeB"}

\* what a keypair path can yield: a readable keypair, or a read error
NoKeypair == "unreadable"
KeypairFiles == Authorities \cup {NoKeypair}

(***************************************************************************)
(* Accounts.  An AccountView is owner, lamports and raw data.  The data of *)
(* a stake account is the bincode image of StakeStateV2, modelled word by  *)
(* word: <<discriminant>> followed by the fields of the variant:           *)
(*   <<0>>                              Uninitialized                      *)
(*   <<1, staker, withdrawer>>          Initialized(meta)                  *)
(*   <<2, staker, withdrawer, deact>>   Stake(meta, stake, flags)          *)
(*   <<3>>                              RewardsPool                        *)
(* Anything else (empty data, an unknown discriminant) does not decode.    *)
(***************************************************************************)
NoAccount == [owner |-> "none", lamports |-> 0, data |-> <<>>]

EncUninitialized == <<0>>
EncInitialized(staker, withdrawer) == <<1, staker, withdrawer>>
EncStake(staker, withdrawer, deact) == <<2, staker, withdrawer, deact>>
EncRewardsPool == <<3>>

DeactivationEpochs == (0..MaxEpoch) \cup {ACTIVE_STAKE_EPOCH_BOUND}

DataValues ==
    {<<>>, EncUninitialized, EncRewardsPool, <<4>>}
    \cup {EncInitialized(s, w) : s \in Authorities, w \in Authorities}
    \cup {EncStake(p[1], p[2], d) : p \in Authorities \X Authorities, d \in DeactivationEpochs}

(***************************************************************************)
(* StakeStateV2 as decoded.                                                *)
(***************************************************************************)
DecodeError == [kind |-> "DecodeError", staker |-> "", withdrawer |-> "",
                deactivation_epoch |-> 0]

Uninitialized == [kind |-> "Uninitialized", staker |-> "", withdrawer |-> "",
                  deactivation_epoch |-> 0]

RewardsPool == [kind |-> "RewardsPool", staker |-> "", withdrawer |-> "",
                deactivation_epoch |-> 0]

Initialized(staker, withdrawer) ==
    [kind |-> "Initialized", staker |-> staker, withdrawer |-> withdrawer,
     deactivation_epoch |-> 0]

Stake(staker, withdrawer, deact) ==
    [kind |-> "Stake", staker |-> staker, withdrawer |-> withdrawer,
     deactivation_epoch |-> deact]

\* misc::helpers::bincode_deserialize::<StakeStateV2>
bincode_deserialize(data) ==
    IF Len(data) = 0 THEN DecodeError
    ELSE IF data[1] = 0 THEN Uninitialized
    ELSE IF data[1] = 1 /\ Len(data) >= 3 THEN Initialized(data[2], data[3])
    ELSE IF data[1] = 2 /\ Len(data) >= 4 THEN Stake(data[2], data[3], data[4])
    ELSE IF data[1] = 3 THEN RewardsPool
    ELSE DecodeError

(***************************************************************************)
(* Ledger reads.                                                           *)
(***************************************************************************)
RpcError == [owner |-> "rpc-error", lamports |-> 0, data |-> <<>>]

\* ctx.rpc().get_account(pubkey): an error when the request fails or no
\* account lives at the address
get_account(pubkey, rpc_ok) ==
    IF ~rpc_ok \/ ledger[pubkey] = NoAccount THEN RpcError ELSE ledger[pubkey]


\* ctx.rpc().get_multiple_accounts(pubkeys): one Option<Account> per
\* address, None where no account lives; an error when the request fails
get_multiple_accounts(pubkeys, rpc_ok) ==
    IF ~rpc_ok THEN <<>> ELSE [i \in 1..Len(pubkeys) |-> ledger[pubkeys[i]]]

(***************************************************************************)
(* Reasons an operation ends with before anything is submitted.            *)
(***************************************************************************)
Passed == "passed"

(***************************************************************************)
(* process_deactivate_stake_account                                        *)
(***************************************************************************)
\* faulty variant: the deactivation-epoch test is dropped
deactivate_match_no_epoch_test(stake_state) ==
    IF stake_state.kind = "Stake" THEN
        IF stake_state.staker # ctx_pubkey THEN "not the authorized staker"
        ELSE Passed
    ELSE IF stake_state.kind = "Initialized" THEN "initialized but not delegated"
    ELSE "not in a valid state for deactivation"

\* the match on the decoded state: which states may be deactivated, by whom
deactivate_match(stake_state) ==
    IF stake_state.kind = "Stake" THEN
        IF stake_state.deactivation_epoch # ACTIVE_STAKE_EPOCH_BOUND
        THEN "already deactivating"
        ELSE IF stake_state.staker # ctx_pubkey THEN "not the authorized staker"
        ELSE Passed
    ELSE IF stake_state.kind = "Initialized" THEN "initialized but not delegated"
    ELSE "not in a valid state for deactivation"

\* faulty variant: an account whose data cannot be decoded is let through
deactivate_checks_decode_error_ignored(account) ==
    IF account = RpcError THEN "rpc error"
    ELSE IF account.owner # STAKE_PROGRAM THEN "not owned by the stake program"
    ELSE IF bincode_deserialize(account.data) = DecodeError THEN Passed
    ELSE deactivate_match(bincode_deserialize(account.data))

\* everything process_deactivate_stake_account does with the fetched account
\* before it builds the instruction
deactivate_checks(account) ==
    IF account = RpcError THEN "rpc error"
    ELSE IF account.owner # STAKE_PROGRAM THEN "not owned by the stake program"
    ELSE IF bincode_deserialize(account.data) = DecodeError THEN "deserialize error"
    ELSE deactivate_match(bincode_deserialize(account.data))

(***************************************************************************)
(* process_withdraw_stake                                                  *)
(***************************************************************************)
\* faulty variant: the cooldown test accepts the deactivation epoch itself
withdraw_match_cooldown_off_by_one(stake_state, current_epoch) ==
    IF stake_state.kind = "Stake" THEN
        IF stake_state.withdrawer # ctx_pubkey THEN "not the authorized withdrawer"
        ELSE IF stake_state.deactivation_epoch = ACTIVE_STAKE_EPOCH_BOUND
        THEN "still active"
        ELSE IF current_epoch < stake_state.deactivation_epoch THEN "cooling down"
        ELSE Passed
    ELSE IF stake_state.kind = "Initialized" THEN
        IF stake_state.withdrawer # ctx_pubkey THEN "not the authorized withdrawer"
        ELSE Passed
    ELSE IF stake_state.kind = "Uninitialized" THEN "uninitialized"
    ELSE "rewards pool"

\* faulty variant: the cooldown test is applied to Initialized accounts as well
withdraw_match_cooldown_on_initialized(stake_state, current_epoch) ==
    IF stake_state.kind = "Stake" THEN
        IF stake_state.withdrawer # ctx_pubkey THEN "not the authorized withdrawer"
        ELSE IF stake_state.deactivation_epoch = ACTIVE_STAKE_EPOCH_BOUND
        THEN "still active"
        ELSE IF current_epoch <= stake_state.deactivation_epoch THEN "cooling down"
        ELSE Passed
    ELSE IF stake_state.kind = "Initialized" THEN
        IF stake_state.withdrawer # ctx_pubkey THEN "not the authorized withdrawer"
        ELSE IF current_epoch <= stake_state.deactivation_epoch THEN "cooling down"
        ELSE Passed
    ELSE IF stake_state.kind = "Uninitialized" THEN "uninitialized"
    ELSE "rewards pool"

\* the match on the decoded state
withdraw_match(stake_state, current_epoch) ==
    IF stake_state.kind = "Stake" THEN
        IF stake_state.withdrawer # ctx_pubkey THEN "not the authorized withdrawer"
        ELSE IF stake_state.deactivation_epoch = ACTIVE_STAKE_EPOCH_BOUND
        THEN "still active"
        ELSE IF current_epoch <= stake_state.deactivation_epoch THEN "cooling down"
        ELSE Passed
    ELSE IF stake_state.kind = "Initialized" THEN
        IF stake_state.withdrawer # ctx_pubkey THEN "not the authorized withdrawer"
        ELSE Passed
    ELSE IF stake_state.kind = "Uninitialized" THEN "uninitialized"
    ELSE "rewards pool"

\* faulty variant: the balance test is dropped
withdraw_balance_check_absent(amount_lamports, account) == Passed

\* `if amount_lamports > account.lamports { bail!(..) }`
withdraw_balance_check(amount_lamports, account) ==
    IF amount_lamports > account.lamports THEN "insufficient balance" ELSE Passed

\* everything process_withdraw_stake does with the fetched account and epoch
\* before it builds the instruction
withdraw_checks(account, current_epoch, amount_lamports) ==
    IF account = RpcError THEN "rpc error"
    ELSE IF account.owner # STAKE_PROGRAM THEN "not owned by the stake program"
    ELSE IF bincode_deserialize(account.data) = DecodeError THEN "deserialize error"
    ELSE IF withdraw_match(bincode_deserialize(account.data), current_epoch) # Passed
    THEN withdraw_match(bincode_deserialize(account.data), current_epoch)
    ELSE withdraw_balance_check(amount_lamports, account)


(***************************************************************************)
(* process_merge_stake                                                     *)
(***************************************************************************)
\* read_keypair_from_path(path).pubkey()
keypair_pubkey(keypair) == keypair

\* the match on the destination's decoded state
merge_destination_match(destination_stake_state) ==
    IF destination_stake_state.kind \in {"Initialized", "Stake"} THEN Passed
    ELSE "destination not in a valid state"

\* faulty variant: the authority test is dropped for a delegated source
merge_source_match_no_authority_test(source_stake_state, authority_pubkey) ==
    IF source_stake_state.kind = "Initialized" THEN
        IF source_stake_state.staker # authority_pubkey
        THEN "not the stake authority of the source"
        ELSE Passed
    ELSE IF source_stake_state.kind = "Stake" THEN
        IF source_stake_state.deactivation_epoch # ACTIVE_STAKE_EPOCH_BOUND
        THEN "source is deactivating"
        ELSE Passed
    ELSE "source not in a valid state"

\* the match on the source's decoded state (line 901 compares with u64::MAX)
merge_source_match(source_stake_state, authority_pubkey) ==
    IF source_stake_state.kind = "Initialized" THEN
        IF source_stake_state.staker # authority_pubkey
        THEN "not the stake authority of the source"
        ELSE Passed
    ELSE IF source_stake_state.kind = "Stake" THEN
        IF source_stake_state.staker # authority_pubkey
        THEN "not the stake authority of the source"
        ELSE IF source_stake_state.deactivation_epoch # ACTIVE_STAKE_EPOCH_BOUND
        THEN "source is deactivating"
        ELSE Passed
    ELSE "source not in a valid state"

\* what process_merge_stake does with the two fetched accounts
merge_checks(stake_accounts, authority_pubkey) ==
    IF stake_accounts = <<>> THEN "rpc error"
    ELSE IF stake_accounts[1] = NoAccount THEN "failed to get stake account"
    ELSE IF stake_accounts[2] = NoAccount THEN "failed to get stake account"
    ELSE IF bincode_deserialize(stake_accounts[1].data) = DecodeError
    THEN "deserialize error"
    ELSE IF bincode_deserialize(stake_accounts[2].data) = DecodeError
    THEN "deserialize error"
    ELSE IF merge_destination_match(bincode_deserialize(stake_accounts[1].data)) # Passed
    THEN merge_destination_match(bincode_deserialize(stake_accounts[1].data))
    ELSE merge_source_match(bincode_deserialize(stake_accounts[2].data), authority_pubkey)

\* faulty variant: the balance shown is what the destination holds once the
\* source's lamports have been added
after_merge_with_source(stake_accounts) ==
    stake_accounts[1].lamports + stake_accounts[2].lamports

\* "After Merge: {} SOL", lamports_to_sol(destination_stake_account.lamports):
\* destination_stake_account is the account fetched before the merge
after_merge(stake_accounts) == stake_accounts[1].lamports

\* process_merge_stake up to the point where the instruction is built:
\* the reason it stops with, the ledger reads it made, what it fetched
process_merge_stake(destination, source, keypair, rpc_ok) ==
    IF keypair = NoKeypair
    THEN [reason |-> "keypair unreadable", reads |-> 0, fetched |-> <<>>]
    ELSE IF destination = source
    THEN [reason |-> "must not be the same", reads |-> 0, fetched |-> <<>>]
    ELSE [reason |-> merge_checks(get_multiple_accounts(<<destination, source>>, rpc_ok),
                                   keypair_pubkey(keypair)),
          reads |-> 1,
          fetched |-> get_multiple_accounts(<<destination, source>>, rpc_ok)]

(***************************************************************************)
(* process_split_stake                                                     *)
(***************************************************************************)
\* ctx.rpc().get_stake_minimum_delegation(): the value, or -1 for an error
get_stake_minimum_delegation(rpc_ok) == IF rpc_ok THEN minimum_delegation ELSE -1

\* faulty variant: a request of exactly the minimum is refused
split_amount_check_strict(lamports, stake_minimum_delegation) ==
    IF lamports <= stake_minimum_delegation THEN "below the minimum delegation"
    ELSE Passed

\* `if lamports < stake_minimum_delegation { bail!(..) }`
split_amount_check(lamports, stake_minimum_delegation) ==
    IF lamports < stake_minimum_delegation THEN "below the minimum delegation"
    ELSE Passed

\* process_split_stake up to the point where the instruction is built
process_split_stake(stake_account, split_stake_account, keypair, lamports, rpc_ok) ==
    IF keypair = NoKeypair
    THEN [reason |-> "keypair unreadable", reads |-> 0, minimum |-> -1]
    ELSE IF stake_account = split_stake_account
    THEN [reason |-> "must not be the same", reads |-> 0, minimum |-> -1]
    ELSE IF get_stake_minimum_delegation(rpc_ok) = -1
    THEN [reason |-> "rpc error", reads |-> 1, minimum |-> -1]
    ELSE [reason |-> split_amount_check(lamports, get_stake_minimum_delegation(rpc_ok)),
          reads |-> 1,
          minimum |-> get_stake_minimum_delegation(rpc_ok)]


(***************************************************************************)
(* Transactions and the ledger's side of them.  The stake program is an    *)
(* external collaborator; what it accepts and what an accepted instruction *)
(* does to the accounts follows the stake-account state machine.           *)
(***************************************************************************)
Tx(kind, stake, other, authority, lamports) ==
    [kind |-> kind, stake |-> stake, other |-> other, authority |-> authority,
     lamports |-> lamports]

NoTx == Tx("none", "", "", "", 0)

StateAt(address) == bincode_deserialize(ledger[address].data)

IsStakeAccount(address) ==
    /\ ledger[address].owner = STAKE_PROGRAM
    /\ StateAt(address).kind \in {"Initialized", "Stake"}

StakeProgramAccepts(tx) ==
    IF tx.kind = "deactivate" THEN
        /\ ledger[tx.stake].owner = STAKE_PROGRAM
        /\ StateAt(tx.stake).kind = "Stake"
        /\ StateAt(tx.stake).deactivation_epoch = ACTIVE_STAKE_EPOCH_BOUND
        /\ StateAt(tx.stake).staker = tx.authority
    ELSE IF tx.kind = "withdraw" THEN
        /\ IsStakeAccount(tx.stake)
        /\ StateAt(tx.stake).withdrawer = tx.authority
        /\ \/ StateAt(tx.stake).kind = "Initialized"
           \/ /\ StateAt(tx.stake).deactivation_epoch # ACTIVE_STAKE_EPOCH_BOUND
              /\ epoch > StateAt(tx.stake).deactivation_epoch
        /\ tx.lamports <= ledger[tx.stake].lamports
    ELSE IF tx.kind = "merge" THEN
        /\ tx.stake # tx.other
        /\ IsStakeAccount(tx.stake)
        /\ IsStakeAccount(tx.other)
        /\ StateAt(tx.stake).staker = tx.authority
        /\ StateAt(tx.other).staker = tx.authority
        /\ \/ StateAt(tx.other).kind = "Initialized"
           \/ StateAt(tx.other).deactivation_epoch = ACTIVE_STAKE_EPOCH_BOUND
    ELSE IF tx.kind = "split" THEN
        /\ tx.stake # tx.other
        /\ IsStakeAccount(tx.stake)
        /\ StateAt(tx.stake).staker = tx.authority
        /\ tx.lamports >= minimum_delegation
        /\ ledger[tx.stake].lamports - tx.lamports >= minimum_delegation
        /\ \/ ledger[tx.other] = NoAccount
           \/ /\ ledger[tx.other].owner = STAKE_PROGRAM
              /\ StateAt(tx.other).kind = "Uninitialized"
    ELSE IF tx.kind = "create" THEN
        \* the system program creates an account only where none lives
        /\ tx.stake \in Addresses
        /\ ledger[tx.stake] = NoAccount
    ELSE IF tx.kind = "delegate" THEN
        /\ ledger[tx.stake].owner = STAKE_PROGRAM
        /\ StateAt(tx.stake).kind = "Initialized"
        /\ StateAt(tx.stake).staker = tx.authority
    ELSE FALSE

StakeProgramApply(tx) ==
    IF tx.kind = "deactivate" THEN
        [ledger EXCEPT ![tx.stake].data =
            EncStake(StateAt(tx.stake).staker, StateAt(tx.stake).withdrawer, epoch)]
    ELSE IF tx.kind = "withdraw" THEN
        [ledger EXCEPT ![tx.stake] =
            IF tx.lamports = @.lamports
            THEN [@ EXCEPT !.lamports = 0, !.data = EncUninitialized]
            ELSE [@ EXCEPT !.lamports = @ - tx.lamports]]
    ELSE IF tx.kind = "merge" THEN
        [ledger EXCEPT ![tx.stake].lamports = @ + ledger[tx.other].lamports,
                       ![tx.other] = NoAccount]
    ELSE IF tx.kind = "split" THEN
        [ledger EXCEPT ![tx.stake].lamports = @ - tx.lamports,
                       ![tx.other] = [owner |-> STAKE_PROGRAM,
                                      lamports |-> ledger[tx.other].lamports + tx.lamports,
                                      data |-> ledger[tx.stake].data]]
    ELSE IF tx.kind = "create" THEN
        [ledger EXCEPT ![tx.stake] = [owner |-> STAKE_PROGRAM,
                                      lamports |-> tx.lamports,
                                      data |-> EncInitialized(tx.authority, tx.authority)]]
    ELSE IF tx.kind = "delegate" THEN
        [ledger EXCEPT ![tx.stake].data =
            EncStake(StateAt(tx.stake).staker, StateAt(tx.stake).withdrawer,
                     ACTIVE_STAKE_EPOCH_BOUND)]
    ELSE ledger

\* misc::helpers::build_and_send_tx: sign, submit, await confirmation.  It
\* returns the signature, or the error of the transport or of the ledger.
build_and_send_tx(tx, transport_ok) ==
    IF ~transport_ok
    THEN [confirmed |-> FALSE, error |-> "transport failure", ledger |-> ledger]
    ELSE IF ~StakeProgramAccepts(tx)
    THEN [confirmed |-> FALSE, error |-> "rejected by the ledger", ledger |-> ledger]
    ELSE [confirmed |-> TRUE, error |-> "", ledger |-> StakeProgramApply(tx)]

\* What the network does to one operation: its ledger reads succeed or fail,
\* and a submission is delivered or fails in transport (the latter at most
\* MaxSendFailures times in a run).  A failed read ends the operation, so the
\* delivery is then of no account.
Networks ==
    {n \in [rpc_ok : BOOLEAN, transport_ok : BOOLEAN] :
        /\ n.rpc_ok \/ n.transport_ok
        /\ send_failures >= MaxSendFailures => n.transport_ok}

(***************************************************************************)
(* The record of the latest operation.                                     *)
(***************************************************************************)
NoOperation ==
    [op |-> "none", stake |-> "", other |-> "", keypair |-> "", lamports |-> 0,
     fetched |-> <<>>, epoch |-> 0, minimum |-> -1, reads |-> 0,
     reason |-> "", submitted |-> FALSE, tx |-> NoTx, result |-> "none",
     query |-> <<>>, confirmed |-> FALSE, report |-> <<>>, message |-> <<>>]

NoDeactivateTxs == [submitted |-> 0, confirmed |-> 0]

\* the deactivate transactions counted per delegation: an account that is no
\* longer delegated after the step starts from zero again
DeactivateTxsAfter(tx, submitted, confirmed, new_ledger) ==
    [a \in Addresses |->
        IF bincode_deserialize(new_ledger[a].data).kind # "Stake" THEN NoDeactivateTxs
        ELSE IF tx.kind = "deactivate" /\ tx.stake = a /\ submitted
        THEN [submitted |-> deactivate_txs[a].submitted + 1,
              confirmed |-> deactivate_txs[a].confirmed + (IF confirmed THEN 1 ELSE 0)]
        ELSE deactivate_txs[a]]

\* An operation ends: either it stopped before building its instruction
\* (request.reason is not Passed) and returns that error, or it hands tx to
\* build_and_send_tx and returns what that returns.  The success message
\* the request carries is printed only after a confirmed transaction.
Complete(request, tx, transport_ok) ==
    IF request.reason # Passed
    THEN /\ last' = [request EXCEPT !.submitted = FALSE, !.tx = NoTx, !.result = "Err",
                                    !.message = <<>>]
         /\ UNCHANGED <<ledger, deactivate_txs, send_failures>>
    ELSE LET sent == build_and_send_tx(tx, transport_ok) IN
         /\ last' = [request EXCEPT
                        !.submitted = TRUE,
                        !.tx = tx,
                        !.reason = sent.error,
                        !.confirmed = sent.confirmed,
                        !.message = IF sent.confirmed THEN @ ELSE <<>>,
                        !.result = IF sent.confirmed THEN "Ok" ELSE "Err"]
         /\ ledger' = sent.ledger
         /\ deactivate_txs' = DeactivateTxsAfter(tx, TRUE, sent.confirmed, sent.ledger)
         /\ send_failures' = IF transport_ok THEN send_failures ELSE send_failures + 1

(***************************************************************************)
(* Program deployment (src/commands/program.rs): what deploy_program       *)
(* builds.  The bytes of the program binary are known by their position    *)
(* in the file: a chunk is the slice of len bytes that starts at src, and  *)
(* a write message carries a chunk to an offset of the buffer account.     *)
(***************************************************************************)
\* constants.rs:30
CHUNK_SIZE == 900

\* faulty variant: no re-signing is asked for
SendAndConfirmConfigV2_no_resign == [resign_txs_count |-> 0, with_spinner |-> TRUE]

\* faulty variant: one re-signing more is asked for
SendAndConfirmConfigV2_six_resigns == [resign_txs_count |-> 6, with_spinner |-> TRUE]

\* SendAndConfirmConfigV2 { resign_txs_count: Some(5), with_spinner: true, .. }
SendAndConfirmConfigV2 == [resign_txs_count |-> 5, with_spinner |-> TRUE]

\* the sizes of the program files of the model: empty, one byte, one full
\* chunk, one byte more, and two full chunks with a shorter third
ProgramLengths == {0, 1, CHUNK_SIZE, CHUNK_SIZE + 1, 2000}

\* faulty variant: only full slices are taken, as chunks_exact does
RECURSIVE chunks_exact(_, _, _)
chunks_exact(start, remaining, chunk_size) ==
    IF remaining < chunk_size THEN <<>>
    ELSE <<[src |-> start, len |-> chunk_size]>>
         \o chunks_exact(start + chunk_size, remaining - chunk_size, chunk_size)

\* program_data.chunks(chunk_size): consecutive slices of chunk_size bytes,
\* the last one shorter when the length is not a multiple; none for no bytes
RECURSIVE chunks(_, _, _)
chunks(start, remaining, chunk_size) ==
    IF remaining = 0 THEN <<>>
    ELSE LET len == IF remaining < chunk_size THEN remaining ELSE chunk_size IN
         <<[src |-> start, len |-> len]>> \o chunks(start + len, remaining - len, chunk_size)

\* faulty variant: the offset is taken from the chunk's own length
offset_by_chunk_length(i, chunk) == i * chunk.len

\* let offset = (i * CHUNK_SIZE) as u32 (every offset of the model is far
\* below 2^32, so the cast keeps the value)
offset(i, chunk) == i * CHUNK_SIZE

\* for (i, chunk) in program_data.chunks(CHUNK_SIZE).enumerate(): one write
\* message per chunk, not yet handed to the delivery
write_messages(program_len) ==
    LET program_chunks == chunks(0, program_len, CHUNK_SIZE) IN
    [k \in 1..Len(program_chunks) |->
        [offset |-> offset(k - 1, program_chunks[k]),
         src |-> program_chunks[k].src,
         len |-> program_chunks[k].len,
         status |-> "pending",
         resigns |-> 0]]

\* no deployment has been started
NoDeploy ==
    [phase |-> "idle", program_len |-> 0, buffer_created |-> FALSE, chunks |-> <<>>,
     buffer |-> <<>>, engine |-> "none", failures |-> -1, deploy_submitted |-> FALSE,
     error |-> "", result |-> "none", flow |-> "none", answer |-> "none"]

(***************************************************************************)
(* Operations.                                                             *)
(***************************************************************************)
\* StakeCommand::Deactivate -> process_deactivate_stake_account
Deactivate ==
    \E stake_pubkey \in Addresses, net \in Networks :
        LET account == get_account(stake_pubkey, net.rpc_ok) IN
        /\ Complete([NoOperation EXCEPT
                        !.op = "deactivate",
                        !.stake = stake_pubkey,
                        !.fetched = <<account>>,
                        !.reads = 1,
                        !.reason = deactivate_checks(account)],
                    Tx("deactivate", stake_pubkey, "", ctx_pubkey, 0),
                    net.transport_ok)
        /\ UNCHANGED <<epoch, minimum_delegation, deploy>>

\* misc::helpers::fetch_account_with_epoch: the account and the epoch info
fetch_account_with_epoch(pubkey, rpc_ok) ==
    [account |-> get_account(pubkey, rpc_ok), epoch |-> IF rpc_ok THEN epoch ELSE 0]

\* the amounts a request can name
Amounts == 0..(MaxLamports + 1)

\* StakeCommand::Withdraw -> process_withdraw_stake
Withdraw ==
    \E stake_pubkey \in Addresses, amount_lamports \in Amounts, net \in Networks :
        LET got == fetch_account_with_epoch(stake_pubkey, net.rpc_ok) IN
        /\ Complete([NoOperation EXCEPT
                        !.op = "withdraw",
                        !.stake = stake_pubkey,
                        !.other = ctx_pubkey,
                        !.lamports = amount_lamports,
                        !.fetched = <<got.account>>,
                        !.epoch = got.epoch,
                        !.reads = 1,
                        !.reason = withdraw_checks(got.account, got.epoch, amount_lamports)],
                    Tx("withdraw", stake_pubkey, ctx_pubkey, ctx_pubkey, amount_lamports),
                    net.transport_ok)
        /\ UNCHANGED <<epoch, minimum_delegation, deploy>>

\* StakeCommand::Merge -> process_merge_stake
Merge ==
    \E destination \in Addresses, source \in Addresses, keypair \in KeypairFiles,
       net \in Networks :
        LET checked == process_merge_stake(destination, source, keypair, net.rpc_ok) IN
        /\ Complete([NoOperation EXCEPT
                        !.op = "merge",
                        !.stake = destination,
                        !.other = source,
                        !.keypair = keypair,
                        !.fetched = checked.fetched,
                        !.reads = checked.reads,
                        !.reason = checked.reason,
                        !.message = IF checked.reason = Passed
                                    THEN <<after_merge(checked.fetched)>> ELSE <<>>],
                    Tx("merge", destination, source, keypair_pubkey(keypair), 0),
                    net.transport_ok)
        /\ UNCHANGED <<epoch, minimum_delegation, deploy>>

\* StakeCommand::Split -> process_split_stake
Split ==
    \E stake_account \in Addresses, split_stake_account \in Addresses,
       keypair \in KeypairFiles, lamports \in Amounts, net \in Networks :
        LET checked == process_split_stake(stake_account, split_stake_account, keypair,
                                           lamports, net.rpc_ok) IN
        /\ Complete([NoOperation EXCEPT
                        !.op = "split",
                        !.stake = stake_account,
                        !.other = split_stake_account,
                        !.keypair = keypair,
                        !.lamports = lamports,
                        !.minimum = checked.minimum,
                        !.reads = checked.reads,
                        !.reason = checked.reason],
                    Tx("split", stake_account, split_stake_account, keypair_pubkey(keypair),
                       lamports),
                    net.transport_ok)
        /\ UNCHANGED <<epoch, minimum_delegation, deploy>>

\* the cluster moves on to its next epoch
AdvanceEpoch ==
    /\ epoch < MaxEpoch
    /\ epoch' = epoch + 1
    /\ UNCHANGED <<ledger, minimum_delegation, last, deactivate_txs, send_failures, deploy>>

(***************************************************************************)
(* One stake account through its life: an account of any owner, balance    *)
(* and content at one address, nothing at the other; deactivate and        *)
(* withdraw as the epochs pass.                                            *)
(***************************************************************************)
AnyAccounts ==
    {NoAccount} \cup [owner : {STAKE_PROGRAM, SYSTEM_PROGRAM},
                      lamports : 0..MaxLamports,
                      data : DataValues]

Init ==
    /\ ledger \in {[a \in Addresses |-> IF a = "stakeA" THEN x ELSE NoAccount] :
                      x \in AnyAccounts}
    /\ epoch \in 0..MaxEpoch
    /\ minimum_delegation = 1
    /\ last = NoOperation
    /\ deactivate_txs = [a \in Addresses |-> NoDeactivateTxs]
    /\ send_failures = 0
    /\ deploy = NoDeploy

Next == Deactivate \/ Withdraw \/ AdvanceEpoch

Spec == Init /\ [][Next]_vars

(***************************************************************************)
(* Two accounts: merge and split.  Both addresses hold a stake-program     *)
(* account of any content (or nothing); neither operation reads the epoch. *)
(* The transport has used up its failures: every submission is delivered.  *)
(***************************************************************************)
PairData ==
    {d \in DataValues :
        /\ Len(d) >= 1
        /\ Len(d) >= 3 => d[3] = ctx_pubkey
        /\ Len(d) >= 4 => d[4] \in {0, ACTIVE_STAKE_EPOCH_BOUND}}

\* each holds enough for one split that leaves the minimum on both sides
PairAccounts ==
    {NoAccount}
    \cup [owner : {STAKE_PROGRAM}, lamports : {2 * MinDelegation}, data : PairData]

InitPair ==
    /\ ledger \in {[a \in Addresses |-> IF a = "stakeA" THEN p[1] ELSE p[2]] :
                      p \in PairAccounts \X PairAccounts}
    /\ epoch = 0
    /\ minimum_delegation = MinDelegation
    /\ last = NoOperation
    /\ deactivate_txs = [a \in Addresses |-> NoDeactivateTxs]
    /\ send_failures = MaxSendFailures
    /\ deploy = NoDeploy

NextPair == Merge \/ Split

SpecPair == InitPair /\ [][NextPair]_vars

(***************************************************************************)
(* The guarded operations on existing accounts together: deactivate,       *)
(* withdraw and merge on two addresses.  The first holds a stake-program   *)
(* account of any content, the second nothing, undecodable data or an      *)
(* active delegation of the caller's.                                      *)
(***************************************************************************)
GuardedSecondAccounts ==
    {NoAccount}
    \cup [owner : {STAKE_PROGRAM}, lamports : {2 * MinDelegation},
          data : {<<4>>, EncStake(ctx_pubkey, ctx_pubkey, ACTIVE_STAKE_EPOCH_BOUND)}]

InitGuarded ==
    /\ ledger \in {[a \in Addresses |-> IF a = "stakeA" THEN p[1] ELSE p[2]] :
                      p \in PairAccounts \X GuardedSecondAccounts}
    /\ epoch = MaxEpoch
    /\ minimum_delegation = MinDelegation
    /\ last = NoOperation
    /\ deactivate_txs = [a \in Addresses |-> NoDeactivateTxs]
    /\ send_failures = MaxSendFailures
    /\ deploy = NoDeploy

NextGuarded == Deactivate \/ Withdraw \/ Merge

SpecGuarded == InitGuarded /\ [][NextGuarded]_vars

(***************************************************************************)
(* Operations that report on the account after the transaction: create and *)
(* delegate fetch the stake account again once build_and_send_tx returned  *)
(* and fail if that fetch or the decoding fails.                           *)
(***************************************************************************)
\* the step of an operation at which the network fails it, if any; a
\* delivery fails in transport at most MaxSendFailures times in a run
Faults(steps) ==
    {"none"} \cup {s \in steps : s = "send" => send_failures < MaxSendFailures}

\* faulty variant: a failed re-fetch does not end the report
report_stake_account_rpc_error_ignored(stake_pubkey, new_ledger, rpc_ok) ==
    IF new_ledger[stake_pubkey] = NoAccount THEN "Failed to get stake account"
    ELSE IF bincode_deserialize(new_ledger[stake_pubkey].data) = DecodeError
    THEN "Unable to deserialize stake state"
    ELSE Passed

\* the stake account as the report fetched it (stake history and clock, the
\* sysvars fetched with it, are always there and always decode)
report_stake_account(stake_pubkey, new_ledger, rpc_ok) ==
    IF ~rpc_ok THEN "rpc error"
    ELSE IF new_ledger[stake_pubkey] = NoAccount THEN "Failed to get stake account"
    ELSE IF bincode_deserialize(new_ledger[stake_pubkey].data) = DecodeError
    THEN "Unable to deserialize stake state"
    ELSE Passed

\* the report of process_create_stake_account: the re-fetched stake account
\* is decoded and matched; RewardsPool ends the report with an error
create_report(stake_pubkey, new_ledger, rpc_ok) ==
    LET fetched == report_stake_account(stake_pubkey, new_ledger, rpc_ok) IN
    IF fetched # Passed THEN fetched
    ELSE IF bincode_deserialize(new_ledger[stake_pubkey].data).kind = "RewardsPool"
    THEN "Cannot withdraw from rewards pool"
    ELSE Passed

\* the report an operation ends with, given the ledger after its transaction
report_after(op, stake_pubkey, new_ledger, rpc_ok) ==
    IF op = "create" THEN create_report(stake_pubkey, new_ledger, rpc_ok)
    ELSE report_stake_account(stake_pubkey, new_ledger, rpc_ok)

\* An operation with a report ends: rejected before its instruction was
\* built, or failed in build_and_send_tx, or confirmed and then reported.
CompleteReported(request, tx, fault) ==
    IF request.reason # Passed
    THEN /\ last' = [request EXCEPT !.submitted = FALSE, !.tx = NoTx, !.result = "Err"]
         /\ UNCHANGED <<ledger, deactivate_txs, send_failures>>
    ELSE LET sent == build_and_send_tx(tx, fault # "send")
             report == IF sent.confirmed
                       THEN report_after(request.op, tx.stake, sent.ledger, fault # "report")
                       ELSE sent.error
             refetched == IF ~sent.confirmed THEN <<>>
                          ELSE IF fault = "report" THEN <<RpcError>>
                          ELSE <<sent.ledger[tx.stake]>> IN
         /\ last' = [request EXCEPT
                        !.submitted = TRUE,
                        !.tx = tx,
                        !.confirmed = sent.confirmed,
                        !.report = refetched,
                        !.reason = report,
                        !.result = IF report = Passed THEN "Ok" ELSE "Err"]
         /\ ledger' = sent.ledger
         /\ deactivate_txs' = DeactivateTxsAfter(tx, TRUE, sent.confirmed, sent.ledger)
         /\ send_failures' = IF fault = "send" THEN send_failures + 1 ELSE send_failures

(***************************************************************************)
(* process_create_stake_account                                            *)
(***************************************************************************)
\* get_minimum_balance_for_rent_exemption(StakeStateV2::size_of()): what the
\* cluster asks for the rent exemption of a stake account
RentExemptMinimum == 1

\* what a stake-account keypair path can yield: the keypair of a fresh
\* address, the wallet's own keypair, or a read error
CreateKeypairFiles == Addresses \cup {ctx_pubkey, NoKeypair}

\* what the fee payer can hold
PayerBalances == {0, MaxLamports + RentExemptMinimum}

\* u64::MAX: the largest integer of the model stands for it
u64_MAX == ACTIVE_STAKE_EPOCH_BOUND

\* amount_to_stake.to_lamports(): an amount the fee payer can fund, one it
\* cannot, and the largest u64
CreateAmounts == {MaxLamports, MaxLamports + 1, u64_MAX}

\* the builds of the program: with overflow checks (debug) an overflowing
\* `+` panics, without them (release) it wraps.  The build shows only when
\* the sum does not fit.
Builds(lamports, minimum_rent_for_balance) ==
    IF lamports <= u64_MAX - minimum_rent_for_balance THEN {FALSE} ELSE BOOLEAN

\* amount in SOL + rent exempt: let total_lamports = lamports +
\* minimum_rent_for_balance, in u64
total_lamports(lamports, minimum_rent_for_balance, overflow_checks) ==
    IF lamports <= u64_MAX - minimum_rent_for_balance
    THEN [panicked |-> FALSE, value |-> lamports + minimum_rent_for_balance]
    ELSE IF overflow_checks
    THEN [panicked |-> TRUE, value |-> 0]
    ELSE [panicked |-> FALSE,
          value |-> lamports - (u64_MAX - minimum_rent_for_balance) - 1]

\* check_minimum_balance(ctx, fee_payer_pubkey, total_lamports)
check_minimum_balance(balance, lamports, rpc_ok) ==
    IF ~rpc_ok THEN "rpc error"
    ELSE IF balance < lamports THEN "insufficient balance"
    ELSE Passed

\* the stake account may not be the fee payer
create_fee_payer_check(fee_payer_pubkey, stake_account_pubkey) ==
    IF fee_payer_pubkey = stake_account_pubkey
    THEN "stake account cannot be the same as fee payer account"
    ELSE Passed

\* faulty variant: a failed lookup is returned as an error, as `?` would
create_existing_check_lookup_error_returned(stake_account) ==
    IF stake_account = RpcError THEN "rpc error"
    ELSE IF stake_account.owner = STAKE_PROGRAM THEN "stake account already exists"
    ELSE "account already exists but is not a stake account"

\* faulty variant: an account found at the address does not stop the create
create_existing_check_absent(stake_account) == Passed

\* check if stake account already exists: only a lookup that returned an
\* account stops the operation (if let Ok(..))
create_existing_check(stake_account) ==
    IF stake_account = RpcError THEN Passed
    ELSE IF stake_account.owner = STAKE_PROGRAM THEN "stake account already exists"
    ELSE "account already exists but is not a stake account"

\* process_create_stake_account up to the instruction: the reason it stops
\* with (or Passed), and what it read on the way
process_create_stake_account(keypair, lamports, balance, fault, overflow_checks) ==
    LET stopped(reason, reads, query) ==
            [reason |-> reason, reads |-> reads, fetched |-> <<>>, query |-> query]
        total == total_lamports(lamports, RentExemptMinimum, overflow_checks)
        funds == check_minimum_balance(balance, total.value, fault # "balance") IN
    IF keypair = NoKeypair THEN stopped("keypair error", 0, <<>>)
    ELSE IF fault = "rent" THEN stopped("rpc error", 1, <<>>)
    ELSE IF total.panicked
    THEN stopped("attempt to add with overflow", 1, <<RentExemptMinimum>>)
    ELSE IF funds # Passed THEN stopped(funds, 2, <<RentExemptMinimum>>)
    ELSE IF create_fee_payer_check(ctx_pubkey, keypair_pubkey(keypair)) # Passed
    THEN stopped(create_fee_payer_check(ctx_pubkey, keypair_pubkey(keypair)), 2,
                 <<RentExemptMinimum, balance>>)
    ELSE LET stake_account == get_account(keypair_pubkey(keypair), fault # "lookup") IN
         [reason |-> create_existing_check(stake_account),
          reads |-> 3,
          fetched |-> <<stake_account>>,
          query |-> <<RentExemptMinimum, balance>>]

\* StakeCommand::Create -> process_create_stake_account; a panic of the
\* addition ends the process where it stands
Create ==
    \E keypair \in CreateKeypairFiles, lamports \in CreateAmounts,
       balance \in PayerBalances,
       fault \in Faults({"rent", "balance", "lookup", "send", "report"}) :
     \E overflow_checks \in Builds(lamports, RentExemptMinimum) :
        LET checked == process_create_stake_account(keypair, lamports, balance, fault,
                                                    overflow_checks)
            total == total_lamports(lamports, RentExemptMinimum, overflow_checks)
            request == [NoOperation EXCEPT
                           !.op = "create",
                           !.stake = keypair,
                           !.keypair = keypair,
                           !.lamports = lamports,
                           !.fetched = checked.fetched,
                           !.query = checked.query,
                           !.reads = checked.reads,
                           !.reason = checked.reason] IN
        /\ IF checked.reason = "attempt to add with overflow"
           THEN /\ last' = [request EXCEPT !.result = "panic"]
                /\ UNCHANGED <<ledger, deactivate_txs, send_failures>>
           ELSE CompleteReported(request,
                                 Tx("create", keypair_pubkey(keypair), "", ctx_pubkey,
                                    total.value),
                                 fault)
        /\ UNCHANGED <<epoch, minimum_delegation, deploy>>

(***************************************************************************)
(* delegate_stake_account                                                  *)
(***************************************************************************)
\* solana_rpc_client_api::request::DELINQUENT_VALIDATOR_SLOT_DISTANCE
DELINQUENT_VALIDATOR_SLOT_DISTANCE == 128

\* the largest root slot a vote account of the model reports
MaxRootSlot == 2

\* RpcVoteAccountInfo, as far as delegate reads it
RpcVoteAccountInfo(root_slot, activated_stake) ==
    [root_slot |-> root_slot, activated_stake |-> activated_stake]

\* RpcVoteAccountStatus: the query is filtered by the vote pubkey, so each
\* list holds the vote account or nothing.  A vote account listed as
\* delinquent has stake behind it, and no root slot or the latest one.
CurrentLists ==
    {<<>>} \cup {<<RpcVoteAccountInfo(r, a)>> : r \in 0..MaxRootSlot, a \in {0, 1}}

DelinquentLists ==
    {<<>>} \cup {<<RpcVoteAccountInfo(r, 1)>> : r \in {0, MaxRootSlot}}

\* get_slot(): a cluster younger than the delinquency distance, and clusters
\* whose distance-old slot falls on each root slot of the model
CurrentSlots == {1} \cup {DELINQUENT_VALIDATOR_SLOT_DISTANCE + k : k \in 1..MaxRootSlot}

\* faulty variant: the subtraction wraps below zero as unsigned 64-bit
\* arithmetic does (ACTIVE_STAKE_EPOCH_BOUND stands for u64::MAX)
wrapping_sub(slot, distance) ==
    IF slot < distance THEN ACTIVE_STAKE_EPOCH_BOUND - (distance - slot - 1)
    ELSE slot - distance

\* u64::saturating_sub
saturating_sub(slot, distance) == IF slot < distance THEN 0 ELSE slot - distance

\* the owner test on the fetched stake account
delegate_owner_check(stake_account) ==
    IF stake_account = RpcError THEN "rpc error"
    ELSE IF stake_account.owner # STAKE_PROGRAM THEN "not a stake account"
    ELSE Passed

\* faulty variant: the delinquent list is looked at first
vote_account_delinquent_first(current, delinquent) ==
    IF Len(delinquent) > 0 THEN <<delinquent[1]>>
    ELSE IF Len(current) > 0 THEN <<current[1]>>
    ELSE <<>>

\* current.first().or_else(|| delinquent.first()): the vote account, or none
vote_account(current, delinquent) ==
    IF Len(current) > 0 THEN <<current[1]>>
    ELSE IF Len(delinquent) > 0 THEN <<delinquent[1]>>
    ELSE <<>>

\* faulty variant: a vote account without a root slot is refused whatever
\* its stake and whatever the slot
sanity_check_root_slot_first(root_slot, activated_stake, min_slot) ==
    IF root_slot = 0 THEN "vote account has no root slot"
    ELSE IF root_slot >= min_slot \/ activated_stake = 0 THEN Passed
    ELSE "vote account appears delinquent"

\* let sanity_check = ...
sanity_check(root_slot, activated_stake, min_slot) ==
    IF root_slot >= min_slot \/ activated_stake = 0 THEN Passed
    ELSE IF root_slot = 0 THEN "vote account has no root slot"
    ELSE "vote account appears delinquent"

\* the slot a root slot may not lie behind
min_root_slot(slot) == saturating_sub(slot, DELINQUENT_VALIDATOR_SLOT_DISTANCE)

\* delegate_stake_account up to the instruction: the reason it stops with
\* (or Passed), what it fetched and what it queried
delegate_stake_account(stake_account_pubkey, current, delinquent, slot, fault) ==
    LET stake_account == get_account(stake_account_pubkey, fault # "get_account")
        found == vote_account(current, delinquent)
        ended(reason, reads, query) ==
            [reason |-> reason, reads |-> reads, fetched |-> <<stake_account>>,
             query |-> query] IN
    IF delegate_owner_check(stake_account) # Passed
    THEN ended(delegate_owner_check(stake_account), 1, <<>>)
    ELSE IF fault = "get_vote_accounts" THEN ended("rpc error", 2, <<>>)
    ELSE IF found = <<>> THEN ended("vote account not found", 2, <<current, delinquent>>)
    ELSE IF fault = "get_slot" THEN ended("rpc error", 3, <<current, delinquent>>)
    ELSE ended(sanity_check(found[1].root_slot, found[1].activated_stake,
                            min_root_slot(slot)),
               3, <<current, delinquent, slot>>)

\* what the cluster answers to get_vote_accounts_with_config and get_slot
VoteReplies == [current : CurrentLists, delinquent : DelinquentLists, slot : CurrentSlots]

NoVoteReply == [current |-> <<>>, delinquent |-> <<>>, slot |-> 0]

\* the answers a delegate can get: none when it ends before it asks
RepliesTo(stake_account_pubkey, fault) ==
    IF \/ delegate_owner_check(get_account(stake_account_pubkey, fault # "get_account")) # Passed
       \/ fault = "get_vote_accounts"
    THEN {NoVoteReply}
    ELSE VoteReplies

\* StakeCommand::Delegate -> delegate_stake_account
Delegate ==
    \E stake_account_pubkey \in Addresses,
       fault \in Faults({"get_account", "get_vote_accounts", "get_slot", "send", "report"}) :
      \E reply \in RepliesTo(stake_account_pubkey, fault) :
        LET checked == delegate_stake_account(stake_account_pubkey, reply.current,
                                              reply.delinquent, reply.slot, fault) IN
        /\ CompleteReported([NoOperation EXCEPT
                                !.op = "delegate",
                                !.stake = stake_account_pubkey,
                                !.other = "vote",
                                !.fetched = checked.fetched,
                                !.query = checked.query,
                                !.reads = checked.reads,
                                !.reason = checked.reason],
                            Tx("delegate", stake_account_pubkey, "vote", ctx_pubkey, 0),
                            fault)
        /\ UNCHANGED <<epoch, minimum_delegation, deploy>>

(***************************************************************************)
(* Creating stake accounts: an account of either owner, or nothing, at one *)
(* address and nothing at the other.                                       *)
(***************************************************************************)
CreateAccounts ==
    {NoAccount}
    \cup [owner : {STAKE_PROGRAM, SYSTEM_PROGRAM},
          lamports : {MaxLamports},
          data : {<<>>, EncInitialized(ctx_pubkey, ctx_pubkey)}]

InitCreate ==
    /\ ledger \in {[a \in Addresses |-> IF a = "stakeA" THEN x ELSE NoAccount] :
                      x \in CreateAccounts}
    /\ epoch = 0
    /\ minimum_delegation = 1
    /\ last = NoOperation
    /\ deactivate_txs = [a \in Addresses |-> NoDeactivateTxs]
    /\ send_failures = 0
    /\ deploy = NoDeploy

NextCreate == Create

SpecCreate == InitCreate /\ [][NextCreate]_vars

(***************************************************************************)
(* Delegating: one account of any content at one address.                  *)
(***************************************************************************)
DelegateData ==
    {<<>>, EncUninitialized, EncRewardsPool,
     EncInitialized(ctx_pubkey, ctx_pubkey), EncInitialized("other", ctx_pubkey),
     EncStake(ctx_pubkey, ctx_pubkey, ACTIVE_STAKE_EPOCH_BOUND),
     EncStake(ctx_pubkey, ctx_pubkey, 0)}

DelegateAccounts ==
    {NoAccount}
    \cup [owner : {STAKE_PROGRAM, SYSTEM_PROGRAM},
          lamports : {MaxLamports},
          data : DelegateData]

InitDelegate ==
    /\ ledger \in {[a \in Addresses |-> IF a = "stakeA" THEN x ELSE NoAccount] :
                      x \in DelegateAccounts}
    /\ epoch = 0
    /\ minimum_delegation = 1
    /\ last = NoOperation
    /\ deactivate_txs = [a \in Addresses |-> NoDeactivateTxs]
    /\ send_failures = 0
    /\ deploy = NoDeploy

NextDelegate == Delegate

SpecDelegate == InitDelegate /\ [][NextDelegate]_vars

(***************************************************************************)
(* deploy_program.  Up to the bulk delivery it is one chain of steps; the   *)
(* delivery of the write messages (the library call                        *)
(* send_and_confirm_transactions_in_parallel_v2) runs the chunks           *)
(* concurrently: each chunk is sent, and then confirmed, failed by the     *)
(* cluster, or expired; an expired chunk is re-signed with a fresh         *)
(* blockhash and sent again, resign_txs_count times at most.  When every   *)
(* chunk has ended the call returns one Option<TransactionError> per       *)
(* chunk; it can also return an error of its own while chunks are still    *)
(* outstanding.                                                            *)
(***************************************************************************)
AllButDeploy == <<ledger, epoch, minimum_delegation, last, deactivate_txs, send_failures>>

\* the steps at which deploy_program can end before the delivery starts; the
\* buffer account exists once its transaction is confirmed
StartFailures ==
    {"Failed to open program file", "keypair error",
     "rent rpc error", "create buffer transaction failed",
     "get_latest_blockhash failed", "tpu client error"}

\* what the confirmation prompt can end with: an answer, or an error of the
\* prompt itself
Answers == {"yes", "no", "prompt error"}

\* faulty variant: a failed prompt counts as a yes
prompt_confirmation_error_is_yes(answer) == answer # "no"

\* Confirm::new(msg).prompt().unwrap_or(false)
prompt_confirmation(answer) == answer = "yes"

BufferCreatedBefore(failure) ==
    failure \in {"none", "get_latest_blockhash failed", "tpu client error"}

\* ProgramCommand::Deploy: without a yes to "Deploy this program?" the
\* command prints "Deployment cancelled." and returns Process; with it,
\* deploy_program runs steps 1 to 7, up to the call of the delivery
StartDeploy ==
    /\ deploy.phase # "writing"
    /\ \E program_len \in ProgramLengths, answer \in Answers,
          failure \in StartFailures \cup {"none"} :
          deploy' =
              IF ~prompt_confirmation(answer)
              THEN [NoDeploy EXCEPT
                       !.answer = answer,
                       !.phase = "ended",
                       !.error = "Deployment cancelled",
                       !.result = "cancelled",
                       !.flow = "Process"]
              ELSE IF failure = "none"
              THEN [NoDeploy EXCEPT
                       !.answer = answer,
                       !.phase = "writing",
                       !.program_len = program_len,
                       !.buffer_created = TRUE,
                       !.chunks = write_messages(program_len),
                       !.engine = "running"]
              ELSE [NoDeploy EXCEPT
                       !.answer = answer,
                       !.phase = "ended",
                       !.program_len =
                           IF failure = "Failed to open program file"
                           THEN 0 ELSE program_len,
                       !.buffer_created = BufferCreatedBefore(failure),
                       !.error = failure,
                       !.result = "Err",
                       !.flow = "Process"]
    /\ UNCHANGED AllButDeploy

\* ProgramCommand::GoBack => return CommandFlow::GoBack
ProgramGoBack ==
    /\ deploy.phase # "writing"
    /\ deploy' = [NoDeploy EXCEPT !.phase = "ended", !.flow = "GoBack"]
    /\ UNCHANGED AllButDeploy

Writing == deploy.phase = "writing"

\* a write message is signed and sent
SendChunk ==
    /\ Writing
    /\ \E i \in DOMAIN deploy.chunks :
          /\ deploy.chunks[i].status = "pending"
          /\ deploy' = [deploy EXCEPT !.chunks[i].status = "sent"]
    /\ UNCHANGED AllButDeploy

\* the cluster confirms a write: its bytes are in the buffer account
ConfirmChunk ==
    /\ Writing
    /\ \E i \in DOMAIN deploy.chunks :
          /\ deploy.chunks[i].status = "sent"
          /\ deploy' = [deploy EXCEPT
                           !.chunks[i].status = "confirmed",
                           !.buffer = Append(@, [offset |-> deploy.chunks[i].offset,
                                                 src |-> deploy.chunks[i].src,
                                                 len |-> deploy.chunks[i].len])]
    /\ UNCHANGED AllButDeploy

\* the cluster fails a write with a transaction error
FailChunk ==
    /\ Writing
    /\ \E i \in DOMAIN deploy.chunks :
          /\ deploy.chunks[i].status = "sent"
          /\ deploy' = [deploy EXCEPT !.chunks[i].status = "failed"]
    /\ UNCHANGED AllButDeploy

\* the blockhash of a sent write expires before it is confirmed: it is
\* re-signed and sent again, or has used up its re-signings
ExpireChunk ==
    /\ Writing
    /\ \E i \in DOMAIN deploy.chunks :
          /\ deploy.chunks[i].status = "sent"
          /\ \/ /\ deploy.chunks[i].resigns < SendAndConfirmConfigV2.resign_txs_count
                /\ deploy' = [deploy EXCEPT !.chunks[i].resigns = @ + 1]
             \/ /\ deploy.chunks[i].resigns >= SendAndConfirmConfigV2.resign_txs_count
                /\ deploy' = [deploy EXCEPT !.chunks[i].status = "expired"]
    /\ UNCHANGED AllButDeploy

Outstanding(chunk) == chunk.status \in {"pending", "sent"}

\* the delivery call returns Err: .map_err(|e| anyhow!("Write transactions
\* failed: {}", e))?
EngineError ==
    /\ Writing
    /\ \E i \in DOMAIN deploy.chunks : Outstanding(deploy.chunks[i])
    /\ deploy' = [deploy EXCEPT
                     !.phase = "ended",
                     !.engine = "error",
                     !.error = "Write transactions failed",
                     !.result = "Err",
                     !.flow = "Process"]
    /\ UNCHANGED AllButDeploy

\* faulty variant: only the writes the cluster failed are collected
transaction_errors_failed_only(chunk_results) ==
    SelectSeq(chunk_results, LAMBDA c : c.status = "failed")

\* .into_iter().flatten().collect(): the errors among the results, one for
\* each chunk that did not end confirmed
transaction_errors(chunk_results) ==
    SelectSeq(chunk_results, LAMBDA c : c.status # "confirmed")

\* faulty variant: a single failed write is let through
write_errors_check_more_than_one(errors) ==
    IF Len(errors) > 1 THEN "write transactions failed" ELSE Passed

\* faulty variant: the errors are not looked at
write_errors_check_absent(errors) == Passed

\* if !transaction_errors.is_empty() { bail!(..) }
write_errors_check(errors) ==
    IF Len(errors) # 0 THEN "write transactions failed" ELSE Passed

\* the delivery returns its results; deploy_program counts the errors and,
\* when there are none, submits the deploy transaction (step 8)
FinishWrites ==
    /\ Writing
    /\ \A i \in DOMAIN deploy.chunks : ~Outstanding(deploy.chunks[i])
    /\ \E deploy_confirmed \in BOOLEAN :
          LET errors == transaction_errors(deploy.chunks) IN
          deploy' =
              IF write_errors_check(errors) # Passed
              THEN [deploy EXCEPT
                       !.phase = "ended",
                       !.engine = "failed",
                       !.failures = Len(errors),
                       !.error = write_errors_check(errors),
                       !.result = "Err",
                       !.flow = "Process"]
              ELSE [deploy EXCEPT
                       !.phase = "ended",
                       !.engine = "ok",
                       !.deploy_submitted = TRUE,
                       !.error = IF deploy_confirmed THEN ""
                                 ELSE "deploy transaction failed",
                       !.result = IF deploy_confirmed THEN "Ok" ELSE "Err",
                       !.flow = "Process"]
    /\ UNCHANGED AllButDeploy

InitDeploy ==
    /\ ledger = [a \in Addresses |-> NoAccount]
    /\ epoch = 0
    /\ minimum_delegation = 1
    /\ last = NoOperation
    /\ deactivate_txs = [a \in Addresses |-> NoDeactivateTxs]
    /\ send_failures = 0
    /\ deploy = NoDeploy

NextDeploy ==
    \/ StartDeploy
    \/ SendChunk
    \/ ConfirmChunk
    \/ FailChunk
    \/ ExpireChunk
    \/ EngineError
    \/ FinishWrites
    \/ ProgramGoBack

SpecDeploy == InitDeploy /\ [][NextDeploy]_vars

\* The delivery under the claim's assumption about the cluster.  The call
\* sends every message it was given, every sent message is eventually
\* confirmed, failed or expired, and deploy_program awaits the call (line
\* 190), so it goes on as soon as the call returns.  Nothing is assumed of
\* StartDeploy (the user need not deploy again) nor of EngineError.
SpecDeployFair ==
    /\ InitDeploy
    /\ [][NextDeploy]_vars
    /\ WF_vars(SendChunk)
    /\ WF_vars(ConfirmChunk \/ FailChunk \/ ExpireChunk)
    /\ WF_vars(FinishWrites)

(***************************************************************************)
(* StakeCommand::process_command, every variant, called once: a selection  *)
(* is followed from the call to its end.  It runs its operation and        *)
(* returns Ok(Process), the operation's error or Ok(GoBack), or it panics. *)
(* The ledger it meets is any of those of the guarded operations.          *)
(***************************************************************************)
\* process_command has not been called yet
Selecting == last.op = "none"

\* StakeCommand::Show => todo!()
Show ==
    /\ Selecting
    /\ last' = [NoOperation EXCEPT !.op = "show", !.result = "panic"]
    /\ UNCHANGED <<ledger, epoch, minimum_delegation, deactivate_txs, send_failures, deploy>>

\* process_stake_history: the sysvar account is fetched and decoded, each
\* with `?`, and the table printed
process_stake_history(rpc_ok, decodes) ==
    IF ~rpc_ok THEN "rpc error"
    ELSE IF ~decodes THEN "deserialize error"
    ELSE Passed

\* StakeCommand::History -> process_stake_history
History ==
    /\ Selecting
    /\ \E rpc_ok \in BOOLEAN, decodes \in BOOLEAN :
          last' = [NoOperation EXCEPT
                      !.op = "history",
                      !.reads = 1,
                      !.reason = process_stake_history(rpc_ok, decodes),
                      !.result = IF process_stake_history(rpc_ok, decodes) = Passed
                                 THEN "Ok" ELSE "Err"]
    /\ UNCHANGED <<ledger, epoch, minimum_delegation, deactivate_txs, send_failures, deploy>>

\* StakeCommand::GoBack => return Ok(CommandExec::GoBack)
GoBack ==
    /\ Selecting
    /\ last' = [NoOperation EXCEPT !.op = "go back", !.result = "GoBack"]
    /\ UNCHANGED <<ledger, epoch, minimum_delegation, deactivate_txs, send_failures, deploy>>

\* the variants that run an operation on the ledger
StakeOperation ==
    /\ Selecting
    /\ (Create \/ Delegate \/ Deactivate \/ Withdraw \/ Merge \/ Split)

InitCommands ==
    /\ ledger \in {[a \in Addresses |-> IF a = "stakeA" THEN p[1] ELSE p[2]] :
                      p \in PairAccounts \X GuardedSecondAccounts}
    /\ epoch = MaxEpoch
    /\ minimum_delegation = MinDelegation
    /\ last = NoOperation
    /\ deactivate_txs = [a \in Addresses |-> NoDeactivateTxs]
    /\ send_failures = MaxSendFailures
    /\ deploy = NoDeploy

NextCommands == StakeOperation \/ Show \/ History \/ GoBack

SpecCommands == InitCommands /\ [][NextCommands]_vars

(***************************************************************************)
(* Properties.  They are stated over what the latest operation was given,  *)
(* what it fetched and how it ended.                                       *)
(***************************************************************************)
\* the i-th account the latest operation fetched, if it got one
HasFetched(i) ==
    /\ Len(last.fetched) >= i
    /\ last.fetched[i] \notin {RpcError, NoAccount}

FetchedState(i) == bincode_deserialize(last.fetched[i].data)

\* the fetched account is one process_deactivate_stake_account may deactivate
DeactivateLegal ==
    /\ HasFetched(1)
    /\ last.fetched[1].owner = STAKE_PROGRAM
    /\ FetchedState(1).kind = "Stake"
    /\ FetchedState(1).deactivation_epoch = ACTIVE_STAKE_EPOCH_BOUND
    /\ FetchedState(1).staker = ctx_pubkey

\* C1: process_deactivate_stake_account submits a deactivate transaction only
\* if the fetched account is owned by the stake program, decodes to Stake with
\* deactivation_epoch = u64::MAX and the caller is meta.authorized.staker; in
\* every other case it returns an error and submits nothing.
C1_DeactivateGuard ==
    last.op = "deactivate" =>
        /\ last.submitted => DeactivateLegal
        /\ ~DeactivateLegal =>
              /\ ~last.submitted
              /\ last.result = "Err"
              /\ last.tx = NoTx

\* C1 witness: a deactivate that passed the guard and was confirmed
C1_Witness ==
    /\ last.op = "deactivate"
    /\ last.submitted
    /\ last.result = "Ok"
    /\ DeactivateLegal

\* C2 as claimed: a legal deactivate is submitted, a confirmed one leaves
\* deactivation_epoch set, and at most one deactivate transaction is submitted
\* per delegation.
C2_AtMostOneDeactivateSubmitted ==
    /\ (last.op = "deactivate" /\ DeactivateLegal) => last.submitted
    /\ \A a \in Addresses : deactivate_txs[a].submitted <= 1

\* C2 as amended: a legal deactivate passes the guard and is submitted; when
\* its transaction is confirmed the account has deactivation_epoch = the
\* current epoch; once one is confirmed no further deactivate transaction is
\* submitted for that delegation (the guard rejects it as already
\* deactivating), so at most one is confirmed per delegation.  A submission
\* that fails in delivery leaves the account active and may be followed by
\* another.
C2_OneConfirmedDeactivatePerDelegation ==
    [][/\ (last'.op = "deactivate" /\ DeactivateLegal') => last'.submitted
       /\ \A a \in Addresses :
            /\ deactivate_txs'[a].confirmed <= 1
            /\ deactivate_txs'[a].confirmed > deactivate_txs[a].confirmed =>
                  /\ StateAt(a)'.kind = "Stake"
                  /\ StateAt(a)'.deactivation_epoch = epoch
            /\ deactivate_txs[a].confirmed >= 1 =>
                  /\ deactivate_txs'[a].submitted <= deactivate_txs[a].submitted
                  /\ (last'.op = "deactivate" /\ last'.stake = a /\ last' # last) =>
                        ~last'.submitted
      ]_vars

\* C2 witness: after a confirmed deactivate, a second deactivate of the same
\* account was rejected by the guard as already deactivating
C2_Witness ==
    /\ last.op = "deactivate"
    /\ ~last.submitted
    /\ last.reason = "already deactivating"
    /\ deactivate_txs[last.stake].confirmed = 1

\* C3: a withdraw for an account in the Stake state is submitted only if its
\* deactivation_epoch is not the sentinel and the fetched epoch is strictly
\* greater; at current_epoch = deactivation_epoch it is rejected as still
\* cooling down, at deactivation_epoch + 1 the guard accepts (matching
\* withdrawer, amount within the balance).
C3_WithdrawCooldown ==
    (last.op = "withdraw" /\ HasFetched(1) /\ FetchedState(1).kind = "Stake") =>
        /\ last.submitted =>
              /\ FetchedState(1).deactivation_epoch # ACTIVE_STAKE_EPOCH_BOUND
              /\ last.epoch > FetchedState(1).deactivation_epoch
        /\ last.epoch = FetchedState(1).deactivation_epoch =>
              /\ ~last.submitted
              /\ (last.fetched[1].owner = STAKE_PROGRAM
                  /\ FetchedState(1).withdrawer = ctx_pubkey) =>
                     last.reason = "cooling down"
        /\ (/\ last.epoch - 1 = FetchedState(1).deactivation_epoch
            /\ last.fetched[1].owner = STAKE_PROGRAM
            /\ FetchedState(1).withdrawer = ctx_pubkey
            /\ last.lamports <= last.fetched[1].lamports) => last.submitted

\* C3 witness: a withdraw one epoch after the deactivation epoch was confirmed
C3_Witness ==
    /\ last.op = "withdraw"
    /\ HasFetched(1)
    /\ FetchedState(1).kind = "Stake"
    /\ last.epoch - 1 = FetchedState(1).deactivation_epoch
    /\ last.submitted
    /\ last.result = "Ok"

\* C4: for a stake account in the Initialized state process_withdraw_stake
\* applies no cooldown or epoch check: at every epoch it accepts exactly when
\* the caller is meta.authorized.withdrawer and the requested lamports do not
\* exceed the balance.
C4_WithdrawInitializedNoCooldown ==
    (/\ last.op = "withdraw"
     /\ HasFetched(1)
     /\ last.fetched[1].owner = STAKE_PROGRAM
     /\ FetchedState(1).kind = "Initialized") =>
        (last.submitted <=>
            /\ FetchedState(1).withdrawer = ctx_pubkey
            /\ last.lamports <= last.fetched[1].lamports)

\* C4 witness: a withdraw from an Initialized account confirmed at epoch 0
C4_Witness ==
    /\ last.op = "withdraw"
    /\ HasFetched(1)
    /\ FetchedState(1).kind = "Initialized"
    /\ last.epoch = 0
    /\ last.lamports > 0
    /\ last.submitted
    /\ last.result = "Ok"

\* C5: process_withdraw_stake rejects, without submitting, every request whose
\* lamports exceed the fetched balance, in the Initialized and in the Stake
\* state; a request for exactly the whole balance is not rejected by this
\* check.
C5_WithdrawBalanceCheck ==
    (last.op = "withdraw" /\ HasFetched(1)) =>
        /\ last.lamports > last.fetched[1].lamports =>
              /\ ~last.submitted
              /\ last.result = "Err"
              /\ last.tx = NoTx
        /\ last.lamports = last.fetched[1].lamports =>
              last.reason # "insufficient balance"

\* C5 witness: an authorized withdraw from a cooled-down Stake account stopped
\* by the balance check alone
C5_Witness ==
    /\ last.op = "withdraw"
    /\ HasFetched(1)
    /\ FetchedState(1).kind = "Stake"
    /\ last.lamports = last.fetched[1].lamports + 1
    /\ last.reason = "insufficient balance"
    /\ ~last.submitted

\* C6 as claimed: every operation on an account in the RewardsPool state
\* returns an error and submits no transaction.
C6_RewardsPoolAlwaysRejected ==
    (/\ last.op \in {"delegate", "deactivate", "withdraw", "merge", "split"}
     /\ \/ StateAt(last.stake).kind = "RewardsPool"
        \/ last.op \in {"merge", "split"} /\ StateAt(last.other).kind = "RewardsPool") =>
        /\ ~last.submitted
        /\ last.result = "Err"

\* C7 as claimed: a merge of two accounts whose authorized stakers differ
\* returns an error and submits no merge transaction, whichever of the two
\* stakers the provided keypair matches.
C7_MergeDifferentStakersRejected ==
    (/\ last.op = "merge"
     /\ HasFetched(1)
     /\ HasFetched(2)
     /\ FetchedState(1).kind \in {"Initialized", "Stake"}
     /\ FetchedState(2).kind \in {"Initialized", "Stake"}
     /\ FetchedState(1).staker # FetchedState(2).staker) =>
        /\ ~last.submitted
        /\ last.result = "Err"

\* C8: process_merge_stake submits a merge transaction only if source and
\* destination differ (checked before any ledger read), both accounts exist
\* and decode to Initialized or Stake, the source's authorized staker is the
\* provided stake authority, and a Stake source has deactivation_epoch =
\* u64::MAX.
C8_MergeGuard ==
    last.op = "merge" =>
        /\ last.stake = last.other =>
              /\ ~last.submitted
              /\ last.reads = 0
        /\ last.submitted =>
              /\ last.stake # last.other
              /\ HasFetched(1)
              /\ HasFetched(2)
              /\ FetchedState(1).kind \in {"Initialized", "Stake"}
              /\ FetchedState(2).kind \in {"Initialized", "Stake"}
              /\ FetchedState(2).staker = last.keypair
              /\ FetchedState(2).kind = "Stake" =>
                    FetchedState(2).deactivation_epoch = ACTIVE_STAKE_EPOCH_BOUND

\* C8 witness: a merge of two distinct accounts was submitted and confirmed
C8_Witness ==
    /\ last.op = "merge"
    /\ last.submitted
    /\ last.result = "Ok"
    /\ FetchedState(2).kind = "Stake"

\* C9: process_split_stake rejects, without submitting, a split whose source
\* and destination are identical and a split whose lamports are below the
\* cluster's minimum stake delegation; a request of exactly the minimum
\* passes the guard.
C9_SplitGuard ==
    last.op = "split" =>
        /\ last.stake = last.other => ~last.submitted /\ last.result = "Err"
        /\ last.lamports < minimum_delegation => ~last.submitted /\ last.result = "Err"
        /\ (/\ last.keypair # NoKeypair
            /\ last.stake # last.other
            /\ last.minimum = minimum_delegation
            /\ last.lamports = minimum_delegation) => last.submitted

\* C9 witness: a split of exactly the minimum delegation was submitted
C9_Witness ==
    /\ last.op = "split"
    /\ last.lamports = minimum_delegation
    /\ last.submitted

\* C10 as claimed: a split transaction is submitted only if both the lamports
\* moved to the new account and the stake left in the source account are at
\* least the minimum delegation.
C10_SplitLeavesMinimumOnBothSides ==
    (last.op = "split" /\ last.submitted) =>
        /\ last.lamports >= minimum_delegation
        /\ IF last.result = "Ok"
           THEN ledger[last.stake].lamports >= minimum_delegation
           ELSE ledger[last.stake].lamports - last.lamports >= minimum_delegation

(***************************************************************************)
(* Create.                                                                 *)
(***************************************************************************)
\* C11: process_create_stake_account submits the create transaction only if
\* the new stake account's pubkey differs from the fee payer and the lookup
\* at that address returned no account; when the lookup returns an account
\* nothing is submitted, the operation ends in an error, and the reason
\* tells an account owned by the stake program from one of any other owner.
C11_CreateGuard ==
    last.op = "create" =>
        /\ last.submitted =>
              /\ last.keypair \notin {ctx_pubkey, NoKeypair}
              /\ last.fetched = <<RpcError>>
              /\ last.tx.kind = "create"
              /\ last.tx.stake = last.keypair
        /\ HasFetched(1) =>
              /\ ~last.submitted
              /\ last.result = "Err"
              /\ last.fetched[1].owner = STAKE_PROGRAM
                    => last.reason = "stake account already exists"
              /\ last.fetched[1].owner # STAKE_PROGRAM
                    => last.reason = "account already exists but is not a stake account"

\* a create was confirmed at the empty address, and a second create at that
\* address was rejected for the stake account it found there
C11_Witness ==
    /\ last.op = "create"
    /\ last.stake = "stakeB"
    /\ HasFetched(1)
    /\ last.fetched[1] = ledger["stakeB"]
    /\ last.reason = "stake account already exists"
    /\ ~last.submitted

(***************************************************************************)
(* Delegate.                                                               *)
(***************************************************************************)
\* the latest operation is a delegate that got as far as the sanity check:
\* it has the two lists of the vote-account query and the current slot
DelegateChecked == last.op = "delegate" /\ Len(last.query) = 3

\* the vote account that delegate resolved: the current list's, else the
\* delinquent list's
ResolvedVoteAccount ==
    IF last.query[1] # <<>> THEN last.query[1][1] ELSE last.query[2][1]

\* root_slot < current_slot - DELINQUENT_VALIDATOR_SLOT_DISTANCE, over the
\* integers
BehindByDistance ==
    ResolvedVoteAccount.root_slot < last.query[3] - DELINQUENT_VALIDATOR_SLOT_DISTANCE

\* C12: delegate_stake_account rejects the vote account as delinquent
\* exactly when root_slot < current_slot - DELINQUENT_VALIDATOR_SLOT_DISTANCE
\* and root_slot # 0 and activated_stake # 0, for every root slot, current
\* slot and activated stake; no delegate transaction is then submitted.
C12_DelinquentExactly ==
    /\ (last.op = "delegate" /\ last.reason = "vote account appears delinquent")
          => Len(last.query) = 3
    /\ DelegateChecked =>
          /\ last.reason = "vote account appears delinquent"
                <=> /\ BehindByDistance
                    /\ ResolvedVoteAccount.root_slot # 0
                    /\ ResolvedVoteAccount.activated_stake # 0
          /\ last.reason = "vote account appears delinquent"
                => /\ ~last.submitted
                   /\ last.tx = NoTx
                   /\ last.result = "Err"

\* a delegate was rejected for a delinquent vote account
C12_Witness ==
    /\ DelegateChecked
    /\ last.reason = "vote account appears delinquent"
    /\ ResolvedVoteAccount.root_slot = 1
    /\ ~last.submitted

\* C13 as stated: a resolved vote account with root_slot = 0 makes delegate
\* fail with the no-root-slot error and submit nothing, whatever the
\* activated stake and the current slot.
C13_RootSlotZeroAlwaysRejected ==
    (DelegateChecked /\ ResolvedVoteAccount.root_slot = 0)
        => /\ last.reason = "vote account has no root slot"
           /\ ~last.submitted

\* C13, amended: a vote account with root_slot = 0 is never rejected as
\* delinquent; it makes delegate fail with the no-root-slot error, nothing
\* submitted, exactly when its activated stake is not zero and the current
\* slot is beyond DELINQUENT_VALIDATOR_SLOT_DISTANCE; with no activated
\* stake, or on a cluster no older than the distance, the check passes and
\* the delegate transaction is submitted.
C13_RootSlotZero ==
    (DelegateChecked /\ ResolvedVoteAccount.root_slot = 0)
        => /\ last.reason # "vote account appears delinquent"
           /\ last.reason = "vote account has no root slot"
                <=> /\ ResolvedVoteAccount.activated_stake # 0
                    /\ last.query[3] > DELINQUENT_VALIDATOR_SLOT_DISTANCE
           /\ last.reason = "vote account has no root slot"
                => ~last.submitted /\ last.result = "Err"
           /\ last.reason # "vote account has no root slot"
                => last.submitted /\ last.tx.kind = "delegate"

\* a delegate to a staked vote account without a root slot was rejected
C13_Witness ==
    /\ DelegateChecked
    /\ ResolvedVoteAccount.root_slot = 0
    /\ ResolvedVoteAccount.activated_stake # 0
    /\ last.reason = "vote account has no root slot"
    /\ ~last.submitted

\* C14: delegate_stake_account submits a delegate transaction only if the
\* fetched stake account is owned by the stake program and the vote-account
\* query returned the vote account in the current or in the delinquent list,
\* the current list's entry being the one that is checked; a missing
\* account, another owner or two empty lists end in an error with nothing
\* submitted.
C14_DelegateResolution ==
    last.op = "delegate" =>
        /\ last.submitted =>
              /\ HasFetched(1)
              /\ last.fetched[1].owner = STAKE_PROGRAM
              /\ Len(last.query) = 3
              /\ last.query[1] # <<>> \/ last.query[2] # <<>>
              /\ ~BehindByDistance \/ ResolvedVoteAccount.activated_stake = 0
              /\ last.tx.kind = "delegate"
              /\ last.tx.stake = last.stake
        /\ \/ ~HasFetched(1)
           \/ last.fetched[1].owner # STAKE_PROGRAM
           \/ Len(last.query) >= 2 /\ last.query[1] = <<>> /\ last.query[2] = <<>>
           => /\ ~last.submitted
              /\ last.result = "Err"

\* a delegate was submitted on the strength of the current list's entry
\* while the delinquent list held an entry that would not have passed
C14_Witness ==
    /\ DelegateChecked
    /\ last.submitted
    /\ last.query[1] # <<>>
    /\ last.query[2] # <<>>
    /\ last.query[2][1].root_slot < last.query[3] - DELINQUENT_VALIDATOR_SLOT_DISTANCE
    /\ last.query[2][1].activated_stake # 0

\* C15: a delegate transaction is submitted only when the stake account's
\* state, as fetched before submission, is Initialized; on any other state
\* the client rejects the delegate without submitting.
C15_DelegateOnlyFromInitialized ==
    (last.op = "delegate" /\ last.submitted)
        => /\ HasFetched(1)
           /\ FetchedState(1).kind = "Initialized"

(***************************************************************************)
(* Program deployment.                                                     *)
(***************************************************************************)
AllConfirmed == \A i \in DOMAIN deploy.chunks : deploy.chunks[i].status = "confirmed"

\* the chunks whose outcome is not Confirmed
NotConfirmed == {i \in DOMAIN deploy.chunks : deploy.chunks[i].status # "confirmed"}

\* the chunks that ended in a failure: failed by the cluster, or expired
EndedInFailure == {i \in DOMAIN deploy.chunks : deploy.chunks[i].status \in {"failed", "expired"}}

\* deploy_program has ended and had got as far as the bulk write phase
WritePhaseEnded == deploy.phase = "ended" /\ deploy.engine # "none"

C17_DeployStepsOrdered ==
    /\ deploy.chunks # <<>> => deploy.buffer_created
    /\ deploy.buffer # <<>> => deploy.buffer_created
    /\ deploy.engine # "none" => deploy.buffer_created
    /\ deploy.deploy_submitted =>
          /\ deploy.buffer_created
          /\ deploy.phase = "ended"
          /\ deploy.engine = "ok"
          /\ AllConfirmed
          /\ Len(deploy.buffer) = Len(deploy.chunks)

\* a deployment of three chunks went through
C17_Witness ==
    /\ deploy.deploy_submitted
    /\ deploy.result = "Ok"
    /\ Len(deploy.chunks) = 3

\* what the buffer account holds at position p: the position in the program
\* file of the byte written there last, or -1 where nothing was written
ByteAt(p) ==
    LET covering == {k \in DOMAIN deploy.buffer :
                        /\ deploy.buffer[k].offset <= p
                        /\ p < deploy.buffer[k].offset + deploy.buffer[k].len}
        latest == CHOOSE k \in covering : \A other \in covering : other <= k IN
    IF covering = {} THEN -1
    ELSE deploy.buffer[latest].src + (p - deploy.buffer[latest].offset)

\* the positions where the content of the buffer can change from one write
\* to another: the first and last byte of every write and their neighbours
BufferPositions ==
    {0, deploy.program_len - 1}
    \cup UNION {{deploy.buffer[k].offset - 1,
                 deploy.buffer[k].offset,
                 deploy.buffer[k].offset + deploy.buffer[k].len - 1,
                 deploy.buffer[k].offset + deploy.buffer[k].len} : k \in DOMAIN deploy.buffer}

\* C18: in whatever order the chunks are sent, re-sent and confirmed, chunk
\* i is written at offset i * CHUNK_SIZE, the byte ranges of two chunks do
\* not meet, and once every chunk is confirmed the buffer holds the program
\* binary, byte for byte and nothing beyond it.
C18_DisjointWritesRebuildBinary ==
    /\ \A i \in DOMAIN deploy.chunks :
          /\ deploy.chunks[i].offset = (i - 1) * CHUNK_SIZE
          /\ \A j \in DOMAIN deploy.chunks :
                i # j => \/ deploy.chunks[i].offset + deploy.chunks[i].len
                               <= deploy.chunks[j].offset
                         \/ deploy.chunks[j].offset + deploy.chunks[j].len
                               <= deploy.chunks[i].offset
    /\ (deploy.engine \in {"running", "ok"} /\ AllConfirmed) =>
          /\ \A p \in BufferPositions :
                IF p \in 0..(deploy.program_len - 1) THEN ByteAt(p) = p
                ELSE ByteAt(p) = -1
          /\ \A k \in DOMAIN deploy.buffer :
                deploy.buffer[k].offset + deploy.buffer[k].len <= deploy.program_len

\* three chunks confirmed last-first, the middle one after a re-signing
C18_Witness ==
    /\ Len(deploy.chunks) = 3
    /\ AllConfirmed
    /\ Len(deploy.buffer) = 3
    /\ deploy.buffer[1].offset = 2 * CHUNK_SIZE
    /\ deploy.buffer[2].offset = 0
    /\ deploy.chunks[2].resigns = 1

\* C19: for a program binary of L bytes deploy_program builds ceil(L / 900)
\* write messages; every chunk but the last has 900 bytes, the last has
\* L - 900 * (n - 1); chunk i is addressed at offset 900 * i; 2000 bytes give
\* chunks of 900, 900 and 200 bytes at offsets 0, 900 and 1800.
C19_ChunksOfProgram ==
    deploy.engine # "none" =>
        LET L == deploy.program_len
            n == Len(deploy.chunks) IN
        /\ n = (L + 899) \div 900
        /\ \A i \in 1..n :
              /\ deploy.chunks[i].len = IF i < n THEN 900 ELSE L - 900 * (n - 1)
              /\ deploy.chunks[i].offset = 900 * (i - 1)
              /\ deploy.chunks[i].src = 900 * (i - 1)
        /\ L = 2000 =>
              /\ [i \in 1..n |-> deploy.chunks[i].len] = <<900, 900, 200>>
              /\ [i \in 1..n |-> deploy.chunks[i].offset] = <<0, 900, 1800>>

\* the write messages of a 2000-byte program are with the delivery
C19_Witness ==
    /\ deploy.engine = "running"
    /\ deploy.program_len = 2000
    /\ Len(deploy.chunks) = 3
    /\ deploy.chunks[3].len = 200

\* C20: a chunk whose blockhash expires for the first time is not given up:
\* it is re-signed and sent again; and when the delivery ends with every
\* chunk confirmed, re-sent ones included, the write phase succeeds and the
\* deploy transaction is submitted.
C20_ExpiredOnceIsResent ==
    [][/\ (Writing /\ deploy'.phase = "writing") =>
             \A i \in DOMAIN deploy.chunks :
                /\ (deploy.chunks[i].status # "expired"
                        /\ deploy'.chunks[i].status = "expired")
                      => deploy.chunks[i].resigns >= 1
                /\ deploy'.chunks[i].resigns # deploy.chunks[i].resigns
                      => /\ deploy.chunks[i].status = "sent"
                         /\ deploy'.chunks[i].status = "sent"
                         /\ deploy'.chunks[i].resigns = deploy.chunks[i].resigns + 1
       /\ (Writing /\ AllConfirmed /\ deploy'.phase = "ended") =>
             /\ deploy'.engine = "ok"
             /\ deploy'.failures = -1
             /\ deploy'.deploy_submitted
             /\ deploy'.chunks = deploy.chunks]_vars

\* a deployment went through whose second chunk expired once and was
\* confirmed on its second sending
C20_Witness ==
    /\ deploy.engine = "ok"
    /\ deploy.deploy_submitted
    /\ Len(deploy.chunks) = 3
    /\ deploy.chunks[2].resigns = 1
    /\ deploy.chunks[1].resigns = 0
    /\ deploy.chunks[3].resigns = 0

\* the chunks that ended expired, their re-signings used up
Expired == {i \in DOMAIN deploy.chunks : deploy.chunks[i].status = "expired"}

\* C21: no chunk is sent again more than five times; a chunk that expires a
\* sixth time ends as failed; and when it is the only chunk that did not
\* end confirmed, the write phase reports exactly one failure.
C21_AtMostFiveResubmissions ==
    /\ \A i \in DOMAIN deploy.chunks :
          /\ deploy.chunks[i].resigns <= 5
          /\ deploy.chunks[i].status = "expired" => deploy.chunks[i].resigns = 5
    /\ (WritePhaseEnded /\ Cardinality(Expired) = 1 /\ NotConfirmed = Expired) =>
          /\ deploy.engine = "failed"
          /\ deploy.failures = 1
          /\ deploy.result = "Err"

\* of three chunks two are confirmed and one has expired six times; one
\* failure is reported
C21_Witness ==
    /\ WritePhaseEnded
    /\ Len(deploy.chunks) = 3
    /\ Cardinality(Expired) = 1
    /\ NotConfirmed = Expired
    /\ deploy.failures = 1

\* the chunks that ended confirmed, and their writes
ConfirmedChunks == {i \in DOMAIN deploy.chunks : deploy.chunks[i].status = "confirmed"}

ConfirmedWrites ==
    {[offset |-> deploy.chunks[i].offset, src |-> deploy.chunks[i].src,
      len |-> deploy.chunks[i].len] : i \in ConfirmedChunks}

\* C22: when the write phase ends with some chunk not confirmed it ends in
\* failure and deploy_program submits nothing more: no deploy transaction is
\* issued, the buffer account still exists and holds exactly the chunks that
\* were confirmed, each once.
C22_NothingAfterWriteFailure ==
    (WritePhaseEnded /\ NotConfirmed # {}) =>
        /\ deploy.engine \in {"failed", "error"}
        /\ ~deploy.deploy_submitted
        /\ deploy.result = "Err"
        /\ deploy.buffer_created
        /\ Len(deploy.buffer) = Cardinality(ConfirmedChunks)
        /\ {deploy.buffer[k] : k \in DOMAIN deploy.buffer} = ConfirmedWrites

\* of three chunks one failed after the two others were written: the two
\* stay in the buffer
C22_Witness ==
    /\ WritePhaseEnded
    /\ deploy.engine = "failed"
    /\ Len(deploy.chunks) = 3
    /\ Len(deploy.buffer) = 2
    /\ ~deploy.deploy_submitted

\* the ways deploy_program ends once the delivery was started: every chunk
\* confirmed and the deploy transaction submitted; a count of failed writes,
\* every chunk ended; or the error of the delivery call itself
TerminalOutcome ==
    /\ deploy.phase = "ended"
    /\ \/ /\ deploy.engine = "ok"
          /\ AllConfirmed
          /\ deploy.deploy_submitted
       \/ /\ deploy.engine = "failed"
          /\ deploy.failures = Cardinality(NotConfirmed)
          /\ deploy.failures >= 1
          /\ \A i \in DOMAIN deploy.chunks : ~Outstanding(deploy.chunks[i])
       \/ /\ deploy.engine = "error"
          /\ deploy.error = "Write transactions failed"

Undecodable(i) == HasFetched(i) /\ FetchedState(i) = DecodeError

\* the latest operation was a deactivate, withdraw or merge that fetched its
\* accounts and then found data it cannot decode, or had a guard reject
GuardStopped ==
    \/ /\ last.op = "deactivate"
       /\ HasFetched(1)
       /\ \/ last.fetched[1].owner = STAKE_PROGRAM /\ Undecodable(1)
          \/ deactivate_checks(last.fetched[1]) # Passed
    \/ /\ last.op = "withdraw"
       /\ HasFetched(1)
       /\ \/ last.fetched[1].owner = STAKE_PROGRAM /\ Undecodable(1)
          \/ withdraw_checks(last.fetched[1], last.epoch, last.lamports) # Passed
    \/ /\ last.op = "merge"
       /\ HasFetched(1)
       /\ HasFetched(2)
       /\ \/ Undecodable(1)
          \/ Undecodable(2)
          \/ merge_checks(last.fetched, keypair_pubkey(last.keypair)) # Passed

\* C24: a deactivate, withdraw or merge that cannot decode a fetched account,
\* or whose guard rejects, returns an error after its one read of the
\* ledger: nothing is fetched again, no transaction is built or submitted,
\* and the ledger is as it was.
C24_GuardErrorReturnsAtOnce ==
    [][GuardStopped' =>
          /\ last'.result = "Err"
          /\ last'.reason # Passed
          /\ last'.reads = 1
          /\ ~last'.submitted
          /\ last'.tx = NoTx
          /\ ledger' = ledger
          /\ deactivate_txs' = deactivate_txs
          /\ send_failures' = send_failures]_vars

\* a deactivate met undecodable data and returned the decoding error
C24_Witness ==
    /\ last.op = "deactivate"
    /\ last.fetched[1].owner = STAKE_PROGRAM
    /\ Undecodable(1)
    /\ last.reason = "deserialize error"
    /\ last.reads = 1
    /\ ~last.submitted

\* C25: every selection handled by StakeCommand::process_command ends by
\* returning a flow value (Process after an operation, GoBack) or an error;
\* none panics.
C25_EverySelectionReturns ==
    last.op # "none" => last.result \in {"Ok", "Err", "GoBack"}

\* C26: process_create_stake_account takes any failure of the lookup at the
\* new address for 'no account there' and goes on to submit the create
\* transaction; it ends with an already-exists reason only when the lookup
\* returned an account.
C26_LookupFailureIsNoAccount ==
    last.op = "create" =>
        /\ last.fetched = <<RpcError>> =>
              /\ last.submitted
              /\ last.tx.kind = "create"
              /\ last.tx.stake = last.keypair
        /\ last.reason \in {"stake account already exists",
                            "account already exists but is not a stake account"}
              => HasFetched(1) /\ ~last.submitted

\* the lookup failed at an address that holds an account: the create
\* transaction was submitted all the same, and the ledger did not take it
C26_Witness ==
    /\ last.op = "create"
    /\ last.fetched = <<RpcError>>
    /\ last.submitted
    /\ ~last.confirmed
    /\ send_failures = 0
    /\ ledger[last.stake] # NoAccount

\* the re-fetch for the report failed, or what it returned does not decode,
\* or (in create) decodes to RewardsPool
ReportFails ==
    /\ last.report # <<>>
    /\ \/ last.report[1] \in {RpcError, NoAccount}
       \/ bincode_deserialize(last.report[1].data) = DecodeError
       \/ /\ last.op = "create"
          /\ bincode_deserialize(last.report[1].data).kind = "RewardsPool"

\* the transaction of the latest create or delegate is in the ledger
Committed ==
    /\ ledger[last.stake] # NoAccount
    /\ ledger[last.stake].owner = STAKE_PROGRAM
    /\ IF last.op = "create"
       THEN /\ ledger[last.stake].lamports = last.tx.lamports
            /\ bincode_deserialize(ledger[last.stake].data).kind = "Initialized"
       ELSE bincode_deserialize(ledger[last.stake].data).kind = "Stake"

\* C27: create and delegate fetch the account for their report only after
\* the transaction is confirmed; when that fetch or the decoding of what it
\* returned fails, the operation ends in an error and without the success
\* message although its transaction is committed; it ends Ok only when the
\* transaction is confirmed and the report went through.
C27_ErrorAfterConfirmedTransaction ==
    last.op \in {"create", "delegate"} =>
        /\ last.report # <<>> <=> last.confirmed
        /\ last.confirmed => last.submitted /\ Committed
        /\ (last.confirmed /\ ReportFails) =>
              /\ last.result = "Err"
              /\ last.reason # Passed
        /\ last.result = "Ok" => last.confirmed /\ ~ReportFails

\* a delegate returned an error although its delegation is in the ledger
C27_Witness ==
    /\ last.op = "delegate"
    /\ last.confirmed
    /\ last.report = <<RpcError>>
    /\ last.result = "Err"
    /\ bincode_deserialize(ledger[last.stake].data).kind = "Stake"
    /\ bincode_deserialize(last.fetched[1].data).kind = "Initialized"

\* C28: process_merge_stake reads the ledger once, before the merge; the
\* 'After Merge' balance of its success message is the destination's
\* lamports of that snapshot, so it is the balance before the merge and
\* leaves out the source's lamports, which the ledger has added.
C28_AfterMergeIsPreMergeBalance ==
    last.op = "merge" =>
        /\ last.result # "Ok" => last.message = <<>>
        /\ last.result = "Ok" =>
              /\ last.reads = 1
              /\ HasFetched(1)
              /\ HasFetched(2)
              /\ last.message = <<last.fetched[1].lamports>>
              /\ ledger[last.stake].lamports
                    = last.message[1] + last.fetched[2].lamports

\* a merge was confirmed: the message shows less than the destination holds
C28_Witness ==
    /\ last.op = "merge"
    /\ last.result = "Ok"
    /\ last.message = <<last.fetched[1].lamports>>
    /\ last.fetched[2].lamports > 0
    /\ ledger[last.stake].lamports > last.message[1]

\* the frame of a command that did not start deploy_program: no buffer, no
\* write, no deploy transaction
NothingDeployed ==
    /\ deploy.phase = "ended"
    /\ ~deploy.buffer_created
    /\ deploy.chunks = <<>>
    /\ deploy.buffer = <<>>
    /\ deploy.engine = "none"
    /\ ~deploy.deploy_submitted

\* C29: ProgramCommand::Deploy starts deploy_program only after a yes to the
\* confirmation.  On a no, or when the prompt fails, no buffer is created
\* and nothing is submitted, and the command returns Process; GoBack
\* returns GoBack and touches nothing either.
C29_DeployOnlyAfterConfirmation ==
    [][/\ deploy'.answer \in {"no", "prompt error"} =>
             /\ NothingDeployed'
             /\ deploy'.result = "cancelled"
             /\ deploy'.flow = "Process"
             /\ ledger' = ledger
       /\ deploy'.flow = "GoBack" =>
             /\ NothingDeployed'
             /\ deploy'.result = "none"
             /\ ledger' = ledger
       /\ (deploy'.phase = "writing" \/ deploy'.buffer_created
              \/ deploy'.deploy_submitted \/ deploy'.result \in {"Ok", "Err"})
             => deploy'.answer = "yes"]_vars

\* the deployment was declined: nothing was created, the command returned
\* Process
C29_Witness ==
    /\ deploy.answer = "prompt error"
    /\ deploy.result = "cancelled"
    /\ deploy.flow = "Process"
    /\ ~deploy.buffer_created
    /\ ~deploy.deploy_submitted

\* C30: in process_create_stake_account total_lamports is the exact sum of
\* the requested lamports and the rent-exempt minimum for every requested
\* amount: the addition neither panics nor wraps, and the create instruction
\* of a submitted create carries that sum.
C30_TotalIsExactSum ==
    last.op = "create" =>
        /\ last.result # "panic"
        /\ last.submitted =>
              last.tx.lamports - RentExemptMinimum = last.lamports

====
